---------------------------- MODULE Spec2Model ----------------------------
(***************************************************************************)
(* Model of resonator/nonlinear.py and resonator/shunt.py.                 *)
(*                                                                         *)
(* NUMBERS.  The program computes with float64 values.  The model computes *)
(* exactly, in the field Q(sqrt 3) extended with the IEEE special values:  *)
(* a number is a triple <<a, b, q>>.                                       *)
(*     q > 0 :  the real number (a + b*sqrt(3)) / q, in lowest terms;      *)
(*     q = 0 :  <<0,0,0>> is NaN, <<1,0,0>> is +Inf, <<-1,0,0>> is -Inf,   *)
(*              <<0,1,0>> marks a radical whose exact value lies outside   *)
(*              Q(sqrt 3); operations are only started on arguments for    *)
(*              which no such value arises (see Exact).                    *)
(* The field holds sqrt(3), which the bifurcation formulas of the source   *)
(* are built from.  +, -, *, / and the radicals return the exact value;    *)
(* the rounding of float64 appears in one place, the irrational constant   *)
(* of kerr_detuning_at_bifurcation (see Float).                            *)
(***************************************************************************)
EXTENDS Integers, Sequences, FiniteSets

NaN    == <<0, 0, 0>>
PInf   == <<1, 0, 0>>
NInf   == <<-1, 0, 0>>
Unrep  == <<0, 1, 0>>

Abs(n) == IF n < 0 THEN -n ELSE n

RECURSIVE GCD(_, _)
GCD(m, n) == IF n = 0 THEN m ELSE GCD(n, m % n)

(* floor of the square root of a natural number *)
RECURSIVE ISqrt(_)
ISqrt(n) ==
    IF n < 2 THEN n
    ELSE LET s == 2 * ISqrt(n \div 4)
         IN  IF s + 1 <= n \div (s + 1) THEN s + 1 ELSE s

(* floor of the cube root of a natural number *)
RECURSIVE ICbrt(_)
ICbrt(n) ==
    IF n < 8 THEN (IF n >= 1 THEN 1 ELSE 0)
    ELSE LET s == 2 * ICbrt(n \div 8)
         IN  IF (s + 1) * (s + 1) <= n \div (s + 1) THEN s + 1 ELSE s

(* n divides m, and the quotient m / n, for n # 0 *)
Divides(n, m) == m % Abs(n) = 0
Quot(m, n)    == (IF n < 0 THEN -m ELSE m) \div Abs(n)

IsSquare(n) == n >= 0 /\ ISqrt(n) * ISqrt(n) = n
IsCube(n)   == ICbrt(Abs(n)) * ICbrt(Abs(n)) * ICbrt(Abs(n)) = Abs(n)
SCbrt(n)    == IF n < 0 THEN -ICbrt(-n) ELSE ICbrt(n)

(* the least k >= 1 with q*k an e-th power (e = 2 or 3), for q >= 1;       *)
(* p runs over the candidate prime factors of q                            *)
RECURSIVE Completer(_, _, _)
Completer(q, e, p) ==
    IF q = 1 THEN 1
    ELSE IF p * p > q THEN (IF e = 2 THEN q ELSE q * q)
    ELSE IF q % p # 0 THEN Completer(q, e, p + 1)
    ELSE IF q % (p * p) # 0
         THEN (IF e = 2 THEN p ELSE p * p) * Completer(q \div p, e, p + 1)
    ELSE IF e = 2 THEN Completer(q \div (p * p), e, p)
    ELSE IF q % (p * p * p) # 0 THEN p * Completer(q \div (p * p), e, p + 1)
    ELSE Completer(q \div (p * p * p), e, p)

(* (a + b*sqrt 3)/q in lowest terms with a positive denominator; q # 0 *)
Norm(a, b, q) ==
    LET g == GCD(GCD(Abs(a), Abs(b)), Abs(q))
        s == IF q < 0 THEN -1 ELSE 1
    IN  <<(s * a) \div g, (s * b) \div g, (s * q) \div g>>

Num(n)  == <<n, 0, 1>>
Zero    == Num(0)
One     == Num(1)
Root3   == <<0, 1, 1>>

IsNaN(x)   == x = NaN
IsUnrep(x) == x = Unrep
IsInf(x)   == x = PInf \/ x = NInf
Finite(x)  == x[3] > 0

(* the order of p1/q1 and p2/q2 (-1, 0, 1) for naturals with q1, q2 > 0,   *)
(* by their continued fractions, so that no product is formed              *)
RECURSIVE CmpFrac(_, _, _, _)
CmpFrac(p1, q1, p2, q2) ==
    LET n1 == p1 \div q1
        n2 == p2 \div q2
        r1 == p1 % q1
        r2 == p2 % q2
    IN  IF n1 < n2 THEN -1
        ELSE IF n1 > n2 THEN 1
        ELSE IF r1 = 0 /\ r2 = 0 THEN 0
        ELSE IF r1 = 0 THEN -1
        ELSE IF r2 = 0 THEN 1
        ELSE CmpFrac(q2, r2, q1, r1)

(* sign of a finite or infinite number: -1, 0, 1; for a and b of opposite  *)
(* signs |a| > |b|*sqrt(3) iff |a| / (3|b|) > |b| / |a|                    *)
Sign(x) ==
    LET a == x[1]
        b == x[2]
    IN  IF b = 0 THEN (IF a > 0 THEN 1 ELSE IF a < 0 THEN -1 ELSE 0)
        ELSE IF a >= 0 /\ b > 0 THEN 1
        ELSE IF a <= 0 /\ b < 0 THEN -1
        ELSE (IF a > 0 THEN 1 ELSE -1)      \* a > 0 > b or b > 0 > a
             * CmpFrac(Abs(a), 3 * Abs(b), Abs(b), Abs(a))    \* |a| against |b|*sqrt 3

Neg(x) == IF IsNaN(x) \/ IsUnrep(x) THEN x ELSE <<-x[1], -x[2], x[3]>>

Add(x, y) ==
    IF IsUnrep(x) \/ IsUnrep(y) THEN Unrep
    ELSE IF IsNaN(x) \/ IsNaN(y) THEN NaN
    ELSE IF IsInf(x) THEN (IF IsInf(y) /\ y # x THEN NaN ELSE x)
    ELSE IF IsInf(y) THEN y
    ELSE LET g == GCD(x[3], y[3])
             m == y[3] \div g
             n == x[3] \div g
         IN  Norm(x[1] * m + y[1] * n, x[2] * m + y[2] * n, x[3] * m)

Sub(x, y) == Add(x, Neg(y))

(* the infinity of sign s, and nan for s = 0 (0 * inf, 0 / 0) *)
SignedInf(s) == IF s = 0 THEN NaN ELSE IF s > 0 THEN PInf ELSE NInf

Mul(x, y) ==
    IF IsUnrep(x) \/ IsUnrep(y) THEN Unrep
    ELSE IF IsNaN(x) \/ IsNaN(y) THEN NaN
    ELSE IF IsInf(x) \/ IsInf(y) THEN SignedInf(Sign(x) * Sign(y))
    ELSE Norm(x[1] * y[1] + 3 * x[2] * y[2], x[1] * y[2] + x[2] * y[1], x[3] * y[3])

(* x / y with numpy's results for a zero divisor: 0/0 = nan, x/0 = +-inf *)
Div(x, y) ==
    IF IsUnrep(x) \/ IsUnrep(y) THEN Unrep
    ELSE IF IsNaN(x) \/ IsNaN(y) THEN NaN
    ELSE IF IsInf(y) THEN (IF IsInf(x) THEN NaN ELSE Zero)
    ELSE IF Sign(y) = 0 THEN SignedInf(Sign(x))
    ELSE IF IsInf(x) THEN SignedInf(Sign(x) * Sign(y))
    ELSE Mul(x, Norm(y[3] * y[1], -(y[3] * y[2]), y[1] * y[1] - 3 * y[2] * y[2]))

Pow2(x) == Mul(x, x)
Pow3(x) == Mul(x, Mul(x, x))

(* comparisons: every comparison with NaN is false, except != *)
Ordered(x, y) == ~IsNaN(x) /\ ~IsNaN(y) /\ ~IsUnrep(x) /\ ~IsUnrep(y)
Eq(x, y) == Ordered(x, y) /\ x = y
Ne(x, y) == ~Eq(x, y)
Lt(x, y) == Ordered(x, y) /\ x # y /\ Sign(Sub(y, x)) = 1
Gt(x, y) == Lt(y, x)
Le(x, y) == Lt(x, y) \/ Eq(x, y)


(***************************************************************************)
(* Radicals.  np.sqrt and np.cbrt of a real number, exactly: the result is *)
(* the root when it lies in Q(sqrt 3) and Unrep otherwise.                 *)
(***************************************************************************)

(* the non-negative root of a non-negative rational a/q, in lowest terms *)
SqrtRational(a, q) ==
    IF IsSquare(a) /\ IsSquare(q) THEN <<ISqrt(a), 0, ISqrt(q)>>
    ELSE IF a % 3 = 0 /\ IsSquare(a \div 3) /\ IsSquare(q)
         THEN <<0, ISqrt(a \div 3), ISqrt(q)>>
    ELSE IF q % 3 = 0 /\ IsSquare(a) /\ IsSquare(q \div 3)
         THEN Norm(0, ISqrt(a), 3 * ISqrt(q \div 3))
    ELSE Unrep

(* the positive root of A + B*sqrt(3) > 0 with integers A, B and B # 0:    *)
(* (a + b*sqrt 3)^2 = a^2 + 3b^2 + 2ab*sqrt(3)                             *)
SqrtMixed(A, B) ==
    LET cands == { r \in { <<Quot(B, 2 * b), b, 1>> :
                              b \in { n \in (-ISqrt(Abs(A) \div 3)) .. ISqrt(Abs(A) \div 3) :
                                        n # 0 /\ Divides(2 * n, B) } } :
                     /\ Abs(r[1]) <= ISqrt(Abs(A))
                     /\ r[1] * r[1] + 3 * r[2] * r[2] = A /\ Sign(r) = 1 }
    IN  IF cands = {} THEN Unrep ELSE CHOOSE r \in cands : TRUE

Sqrt(x) ==
    IF IsUnrep(x) THEN Unrep
    ELSE IF IsNaN(x) \/ x = NInf THEN NaN
    ELSE IF x = PInf THEN PInf
    ELSE IF Sign(x) < 0 THEN NaN
    ELSE IF Sign(x) = 0 THEN Zero
    ELSE IF x[2] = 0 THEN SqrtRational(x[1], x[3])
    ELSE LET k == Completer(x[3], 2, 2)
         IN  Div(SqrtMixed(x[1] * k, x[2] * k), Num(ISqrt(x[3] * k)))

(* the real cube root of A + B*sqrt(3) with integers A, B and B # 0:       *)
(* (a + b*sqrt 3)^3 = a^3 + 9ab^2 + 3b(a^2 + b^2)*sqrt(3)                  *)
CbrtMixed(A, B) ==
    LET m  == ICbrt(Abs(B) \div 3) + 1
        bs == { n \in (-m) .. m : n # 0 /\ Divides(3 * n, B) /\ Quot(B, 3 * n) - n * n >= 0 }
        cands == { r \in { <<s * ISqrt(Quot(B, 3 * b) - b * b), b, 1>> :
                              s \in {-1, 1}, b \in bs } :
                     /\ r[1] * r[1] = Quot(B, 3 * r[2]) - r[2] * r[2]
                     /\ Abs(r[1]) <= ICbrt(Abs(A))
                     /\ r[1] * r[1] * r[1] + 9 * r[1] * r[2] * r[2] = A }
    IN  IF cands = {} THEN Unrep ELSE CHOOSE r \in cands : TRUE

Cbrt(x) ==
    IF IsUnrep(x) THEN Unrep
    ELSE IF IsNaN(x) THEN NaN
    ELSE IF IsInf(x) THEN x
    ELSE IF x[2] = 0
         THEN (IF IsCube(x[1]) /\ IsCube(x[3]) THEN <<SCbrt(x[1]), 0, SCbrt(x[3])>>
               ELSE Unrep)
    ELSE LET k == Completer(x[3], 3, 2)
         IN  Div(CbrtMixed(x[1] * k, x[2] * k), Num(ICbrt(x[3] * k)))

(***************************************************************************)
(* Complex numbers: <<re, im>> with re and im numbers as above.            *)
(***************************************************************************)
Re(z)  == z[1]
Im(z)  == z[2]
CAdd(z, w) == <<Add(z[1], w[1]), Add(z[2], w[2])>>
CSub(z, w) == <<Sub(z[1], w[1]), Sub(z[2], w[2])>>
CMul(z, w) == <<Sub(Mul(z[1], w[1]), Mul(z[2], w[2])),
                Add(Mul(z[1], w[2]), Mul(z[2], w[1]))>>
CConj(z)   == <<z[1], Neg(z[2])>>
CDivReal(z, r) == <<Div(z[1], r), Div(z[2], r)>>
(* z / w = z * conj(w) / |w|^2 *)
CDiv(z, w) == CDivReal(CMul(z, CConj(w)), Add(Pow2(w[1]), Pow2(w[2])))
CScale(k, z) == <<Mul(k, z[1]), Mul(k, z[2])>>
CRat(z) == Finite(z[1]) /\ Finite(z[2])

(* np.sqrt of a real number cast to complex: the principal root *)
CSqrtReal(x) ==
    IF IsNaN(x) \/ IsUnrep(x) THEN <<x, x>>
    ELSE IF Sign(x) >= 0 THEN <<Sqrt(x), Zero>>
    ELSE <<Zero, Sqrt(Neg(x))>>

(* z ** (1/3): the principal cube root, the one with argument in           *)
(* (-pi/3, pi/3].  It is searched among the numbers (m + n*i*sqrt 3)/(2D), *)
(* z = (P + T*i*sqrt 3)/(8*D^3), which hold every cube root that lies in  *)
(* Q(i*sqrt 3).                                                           *)
CCbrt(z) ==
    IF ~CRat(z) THEN (IF IsUnrep(z[1]) \/ IsUnrep(z[2]) THEN <<Unrep, Unrep>> ELSE <<NaN, NaN>>)
    ELSE IF z[1][2] # 0 \/ z[2][1] # 0 THEN <<Unrep, Unrep>>
    ELSE
    LET L == (z[1][3] * z[2][3]) \div GCD(z[1][3], z[2][3])
        k == Completer(L, 3, 2)
        D == ICbrt(L * k)
        P == 8 * k * z[1][1] * (L \div z[1][3])
        T == 8 * k * z[2][2] * (L \div z[2][3])
        M == 2 * ICbrt(Abs(P) + 2 * Abs(T)) + 2
        cands == { r \in (0 .. M) \X ((-M) .. M) :
                     /\ r[1] > 0 /\ -r[1] < r[2] /\ r[2] <= r[1]
                     /\ r[1] * r[1] * r[1] - 9 * r[1] * r[2] * r[2] = P
                     /\ 3 * r[2] * (r[1] * r[1] - r[2] * r[2]) = T }
    IN  IF cands = {} THEN <<Unrep, Unrep>>
        ELSE LET r == CHOOSE r \in cands : TRUE
             IN  <<Norm(r[1], 0, 2 * D), Norm(0, r[2], 2 * D)>>

(***************************************************************************)
(* nonlinear.kerr_detuning, one point at a time.                           *)
(***************************************************************************)
Half == <<1, 0, 2>>

CoefB(detuning) == Mul(Num(-2), detuning)
CoefC(detuning, coupling_loss, internal_loss) ==
    Add(Pow2(Div(Add(coupling_loss, internal_loss), Num(2))), Pow2(detuning))
CoefD(coupling_loss, KXin) == Mul(Neg(KXin), coupling_loss)

Delta0(b, c) == Sub(Pow2(b), Mul(Num(3), c))
Delta1(b, c, d) ==
    Add(Sub(Mul(Num(2), Pow3(b)), Mul(Mul(Num(9), b), c)), Mul(Num(27), d))
Delta(delta0, delta1) ==
    Div(Sub(Mul(Num(4), Pow3(delta0)), Pow2(delta1)), Num(27))

ThreeDistinctReal(delta) == Gt(delta, Zero)
MultipleReal(delta)      == Eq(delta, Zero)
OneReal(delta)           == Lt(delta, Zero)
Triple(delta, delta0)          == MultipleReal(delta) /\ Eq(delta0, Zero)
DoubleAndSimple(delta, delta0) == MultipleReal(delta) /\ Ne(delta0, Zero)

(* Choose that takes the minimum whatever choose is *)
ChooseAlwaysMin(choose, cands) ==
    IF \E r \in cands : IsUnrep(r) THEN Unrep
    ELSE IF \E r \in cands : IsNaN(r) THEN NaN
    ELSE CHOOSE r \in cands : \A t \in cands : Le(r, t)

(* choose(np.vstack(rows), axis=0) at one point, for choose = np.min or    *)
(* np.max; both return nan when a candidate is nan                         *)
Choose(choose, cands) ==
    IF \E r \in cands : IsUnrep(r) THEN Unrep
    ELSE IF \E r \in cands : IsNaN(r) THEN NaN
    ELSE IF choose = "min" THEN CHOOSE r \in cands : \A t \in cands : Le(r, t)
    ELSE CHOOSE r \in cands : \A t \in cands : Le(t, r)

CcOneReal(delta0, delta1) ==
    Cbrt(Div(Add(delta1, Sqrt(Sub(Pow2(delta1), Mul(Num(4), Pow3(delta0))))), Num(2)))

(* -(b + cc + delta0 / cc) / 3 *)
RootFromCc(b, delta0, cc) == Div(Neg(Add(Add(b, cc), Div(delta0, cc))), Num(3))
RootOneReal(b, delta0, delta1) == RootFromCc(b, delta0, CcOneReal(delta0, delta1))

RootTriple(b) == Div(Neg(b), Num(3))

DoubleRoot(b, c, d, delta0) ==
    Div(Sub(Mul(Num(9), d), Mul(b, c)), Mul(Num(2), delta0))
SimpleRoot(b, c, d, delta0) ==
    Div(Sub(Sub(Mul(Mul(Num(4), b), c), Mul(Num(9), d)), Pow3(b)), delta0)
RootDoubleAndSimple(b, c, d, delta0, choose) ==
    Choose(choose, {DoubleRoot(b, c, d, delta0), SimpleRoot(b, c, d, delta0)})

Xi == <<Neg(Half), Mul(Half, Root3)>>
CcThreeDistinctReal(delta0, delta1) ==
    CCbrt(CScale(Half, CAdd(<<delta1, Zero>>,
                            CSqrtReal(Sub(Pow2(delta1), Mul(Num(4), Pow3(delta0)))))))
(* -1/3 * (b + wcc + delta0 / wcc), complex *)
ComplexRoot(b, delta0, wcc) ==
    CScale(<<-1, 0, 3>>, CAdd(CAdd(<<b, Zero>>, wcc), CDiv(<<delta0, Zero>>, wcc)))
(* np.real(-1/3 * (b + w*cc + delta0/(w*cc))) for w = 1, xi, xi**2 *)
RotatedRoot(b, delta0, cc, w) == Re(ComplexRoot(b, delta0, CMul(w, cc)))
(* 1, xi, xi ** 2 *)
Rotations == { <<One, Zero>>, Xi, CMul(Xi, Xi) }
ThreeRoots(b, delta0, cc) == { RotatedRoot(b, delta0, cc, w) : w \in Rotations }
RootThreeDistinctReal(b, delta0, delta1, choose) ==
    Choose(choose, ThreeRoots(b, delta0, CcThreeDistinctReal(delta0, delta1)))

(* the root kerr_detuning stores for one point: the three masks exclude    *)
(* one another, and a point in none of them keeps the 0 of np.zeros        *)
KerrRoot(b, c, d, delta0, delta1, delta, choose) ==
    IF OneReal(delta) THEN RootOneReal(b, delta0, delta1)
    ELSE IF Triple(delta, delta0) THEN RootTriple(b)
    ELSE IF DoubleAndSimple(delta, delta0)
         THEN RootDoubleAndSimple(b, c, d, delta0, choose)
    ELSE IF ThreeDistinctReal(delta)
         THEN RootThreeDistinctReal(b, delta0, delta1, choose)
    ELSE Zero
(* the discriminants of the cubic with coefficients b, c, d *)
KerrCubic(b, c, d, choose) ==
    KerrRoot(b, c, d, Delta0(b, c), Delta1(b, c, d),
             Delta(Delta0(b, c), Delta1(b, c, d)), choose)
KerrPoint(detuning, coupling_loss, internal_loss, KXin, choose) ==
    KerrCubic(CoefB(detuning), CoefC(detuning, coupling_loss, internal_loss),
              CoefD(coupling_loss, KXin), choose)

KerrDetuningAtBifurcation(coupling_loss, internal_loss) ==
    Div(Mul(<<0, 1, 9>>, Pow3(Add(internal_loss, coupling_loss))), coupling_loss)

(* 3 ** (-3 / 2) is irrational, so the float the expression yields is not  *)
(* the number above but a neighbour of it, on a side that depends on the   *)
(* operands: the value itself or either neighbour at the relative distance *)
(* RelativeError                                                           *)
RelativeError == <<1, 0, 8>>
Float(x) == { x, Mul(x, Add(One, RelativeError)), Mul(x, Sub(One, RelativeError)) }

(***************************************************************************)
(* shunt.py: the two models and the two inversions.                        *)
(***************************************************************************)
COne           == <<One, Zero>>

Detuning(frequency, resonance_frequency) ==
    Sub(Div(frequency, resonance_frequency), One)

Scattering(detuning, internal_loss, coupling_loss, asymmetry) ==
    CSub(COne,
         CDiv(<<One, asymmetry>>,
              CAdd(COne, CDivReal(<<internal_loss, Mul(Num(2), detuning)>>, coupling_loss))))

Shunt(frequency, resonance_frequency, internal_loss, coupling_loss, asymmetry) ==
    Scattering(Detuning(frequency, resonance_frequency),
               internal_loss, coupling_loss, asymmetry)

ShuntNonlinear(frequency, resonance_frequency, internal_loss, coupling_loss, asymmetry, KXin, choose) ==
    Scattering(Sub(Detuning(frequency, resonance_frequency),
                   KerrPoint(Detuning(frequency, resonance_frequency),
                             coupling_loss, internal_loss, KXin, choose)),
               internal_loss, coupling_loss, asymmetry)

(* Invert with the detuning taken as z.imag instead of z.imag / 2 *)
InvertWithoutHalving(scattering_data, coupling_loss, asymmetry) ==
    LET z == CScale(coupling_loss,
                    CSub(CDiv(<<One, asymmetry>>, CSub(COne, scattering_data)), COne))
    IN  <<Im(z), Re(z)>>

(* ShuntFitter.invert: <<detuning, internal_loss>> *)
Invert(scattering_data, coupling_loss, asymmetry) ==
    LET z == CScale(coupling_loss,
                    CSub(CDiv(<<One, asymmetry>>, CSub(COne, scattering_data)), COne))
    IN  <<Div(Im(z), Num(2)), Re(z)>>

(***************************************************************************)
(* shunt.guess_smooth.  An array is a sequence; the Python index p is the  *)
(* position p + 1 of the sequence.                                         *)
(***************************************************************************)
(* np.abs of a complex number *)
CAbs(z) == Sqrt(Add(Pow2(z[1]), Pow2(z[2])))
AbsData(data) == [i \in 1 .. Len(data) |-> CAbs(data[i])]

(* entry k of the full convolution: the sum of a[k + 1 - j] * v[j] over    *)
(* the first j positions of v                                              *)
RECURSIVE ConvolveTerms(_, _, _, _)
ConvolveTerms(a, v, k, j) ==
    IF j = 0 THEN Zero
    ELSE Add(ConvolveTerms(a, v, k, j - 1),
             IF k + 1 - j \in 1 .. Len(a) THEN Mul(a[k + 1 - j], v[j]) ELSE Zero)

(* mode='same' for Len(a) >= Len(v): the Len(a) entries of the full        *)
(* convolution that start after its first (Len(v) - 1) - Len(v) // 2       *)
ConvolveSame(a, v) ==
    [i \in 1 .. Len(a) |->
        ConvolveTerms(a, v, i + (Len(v) - 1) - (Len(v) \div 2), Len(v))]

(* np.convolve(x, y, mode='same'): the longer argument is the signal *)
Convolve(x, y) == IF Len(y) > Len(x) THEN ConvolveSame(y, x) ELSE ConvolveSame(x, y)

(* np.argmax and np.argmin: the Python index of the first extremum *)
ArgMax(a) ==
    (CHOOSE i \in 1 .. Len(a) : /\ \A j \in 1 .. Len(a) : Le(a[j], a[i])
                                /\ \A j \in 1 .. (i - 1) : Lt(a[j], a[i])) - 1
ArgMin(a) ==
    (CHOOSE i \in 1 .. Len(a) : /\ \A j \in 1 .. Len(a) : Le(a[i], a[j])
                                /\ \A j \in 1 .. (i - 1) : Lt(a[i], a[j])) - 1

(* a[lo:-hi] for 0 < hi *)
Slice(a, lo, hi) == SubSeq(a, lo + 1, Len(a) - hi)

(* the kernel is a tenth of the sweep *)
KernelFraction == 10
Width(size) == size \div KernelFraction

(* np.exp(-np.linspace(-4, 4, width) ** 2) divided by its sum.  For width  *)
(* 1 and 2 the samples are -4 and -4, 4: the exponentials are equal and    *)
(* every weight is 1 / width.  Wider kernels have irrational weights.      *)
Gaussian(width) ==
    [k \in 1 .. width |-> IF width <= 2 THEN <<1, 0, width>> ELSE Unrep]

Smoothed(data, width) == Convolve(Gaussian(width), AbsData(data))
Derivative(smoothed)  == Convolve(<<One, Neg(One)>>, smoothed)

(* frequency[np.argmax(derivative[width:-width])] -                        *)
(* frequency[np.argmin(derivative[width:-width])]                          *)
Linewidth(frequency, derivative, width) ==
    Sub(frequency[ArgMax(Slice(derivative, width, width)) + 1],
        frequency[ArgMin(Slice(derivative, width, width)) + 1])

ResonanceFrequency(frequency, data) == frequency[ArgMin(AbsData(data)) + 1]
MinAbs(data) == AbsData(data)[ArgMin(AbsData(data)) + 1]
InternalPlusCoupling(linewidth, resonance_frequency) == Div(linewidth, resonance_frequency)
InternalOverCoupling(data) == Div(One, Sub(Div(One, MinAbs(data)), One))
CouplingLoss(internal_plus_coupling, internal_over_coupling) ==
    Div(internal_plus_coupling, Add(One, internal_over_coupling))
InternalLoss(internal_plus_coupling, internal_over_coupling) ==
    Div(Mul(internal_plus_coupling, internal_over_coupling), Add(One, internal_over_coupling))

(***************************************************************************)
(* Bounds of the model and the inputs drawn within them.  Detunings lie on *)
(* the integers, losses and drives on the halves; the two detunings        *)
(* +-(sqrt(3)/2)*(coupling_loss + internal_loss), at which delta0          *)
(* vanishes, the bifurcation drive and a NaN detuning are added.           *)
(***************************************************************************)
MaxDetuning == 2
MaxLoss     == 2
MaxDrive    == 5
MaxPoints   == 2

Losses == { Norm(n, 0, 2) : n \in 1 .. MaxLoss }
Drives(coupling_loss, internal_loss) ==
    { Norm(k, 0, 2) : k \in 0 .. MaxDrive }
      \cup Float(KerrDetuningAtBifurcation(coupling_loss, internal_loss))
ZeroDelta0(coupling_loss, internal_loss) ==
    Mul(Mul(Half, Root3), Add(coupling_loss, internal_loss))
FiniteDetunings(coupling_loss, internal_loss) ==
    { Num(m) : m \in (-MaxDetuning) .. MaxDetuning }
      \cup { ZeroDelta0(coupling_loss, internal_loss),
             Neg(ZeroDelta0(coupling_loss, internal_loss)) }
Detunings(coupling_loss, internal_loss) ==
    FiniteDetunings(coupling_loss, internal_loss) \cup {NaN}
Chooses == {"min", "max"}

(* parameters outside the physical bounds, and the other model parameters *)
OutOfBounds          == { <<0, 0, 1>>, <<-2, 0, 1>> }
ResonanceFrequencies == { Num(2) }
Asymmetries          == { Zero, Half }

(* the radicals of the point are in Q(sqrt 3): the model can run it *)
Exact(detuning, coupling_loss, internal_loss, KXin) ==
    ~IsUnrep(KerrPoint(detuning, coupling_loss, internal_loss, KXin, "min"))

Points(coupling_loss, internal_loss, KXin) ==
    { x \in Detunings(coupling_loss, internal_loss) :
        Exact(x, coupling_loss, internal_loss, KXin) }

Arrays(S) == UNION { [1 .. n -> S] : n \in 0 .. MaxPoints }

(* what a caller may pass as detuning: a Python scalar, a zero-dimensional *)
(* array or a one-dimensional array                                        *)
Scalar(x)    == [kind |-> "scalar",  shape |-> <<>>, data |-> <<x>>]
ZeroDim(x)   == [kind |-> "ndarray", shape |-> <<>>, data |-> <<x>>]
OneDim(a)    == [kind |-> "ndarray", shape |-> <<Len(a)>>, data |-> a]
DetuningArguments(S) ==
    { Scalar(x) : x \in S } \cup { ZeroDim(x) : x \in S } \cup { OneDim(a) : a \in Arrays(S) }

(* guess_smooth: sweeps of up to MaxSweep points, the shortest too short  *)
(* for a kernel; the frequencies rise in steps of a up to the middle of   *)
(* the sweep and in steps of b after it, so a sweep is uniformly spaced   *)
(* when a = b; the data have modulus 1 or 1/2                             *)
MaxSweep == 10
MaxStep  == 2
SweepSizes == (KernelFraction - 1) .. MaxSweep
Sweeps(n) ==
    { [i \in 1 .. n |-> Num(IF i <= n \div 2 THEN a * i
                            ELSE a * (n \div 2) + b * (i - n \div 2))] :
        a \in 1 .. MaxStep, b \in 1 .. MaxStep }
DataPoints == { <<One, Zero>>, <<Zero, Neg(Half)>> }

(***************************************************************************)
(* State.                                                                  *)
(*   pc      where the running call stands ("idle" before, "done" after)   *)
(*   caller  the object the caller passed as detuning, as it is now        *)
(*   frame   the local variables of kerr_detuning                          *)
(*   written for each index of roots, the branches that assigned it        *)
(*   call    the function called last and its arguments                    *)
(*   result  how the call ended and what it returned                       *)
(*   guess_frame  the arguments and local variables of guess_smooth        *)
(***************************************************************************)
VARIABLES pc, caller, frame, written, call, result, guess_frame

vars == <<pc, caller, frame, written, call, result, guess_frame>>

NoObject == [kind |-> "none", shape |-> <<>>, data |-> <<>>]
NoFrame  == [is_scalar |-> FALSE, is_zero_size |-> FALSE, detuning |-> <<>>,
             coupling_loss |-> Zero, internal_loss |-> Zero, KXin |-> Zero,
             choose |-> "min", roots |-> <<>>, b |-> <<>>, c |-> <<>>, d |-> Zero,
             delta0 |-> <<>>, delta1 |-> <<>>, delta |-> <<>>,
             three_distinct_real |-> <<>>, multiple_real |-> <<>>, one_real |-> <<>>]
NoCall   == [op |-> "none", frequency |-> Zero, resonance_frequency |-> Zero,
             internal_loss |-> Zero, coupling_loss |-> Zero, asymmetry |-> Zero,
             KXin |-> Zero, choose |-> "min", scattering_data |-> <<Zero, Zero>>,
             self_coupling_loss |-> Zero, self_asymmetry |-> Zero]
NoResult == [outcome |-> "none", kind |-> "none", value |-> <<>>]
Returned(kind, value) == [outcome |-> "returned", kind |-> kind, value |-> value]
Raised(kind) == [outcome |-> "raised", kind |-> kind, value |-> <<>>]
NoGuess  == [frequency |-> <<>>, data |-> <<>>, width |-> 0, smoothed |-> <<>>,
             derivative |-> <<>>, linewidth |-> Zero]

Init ==
    /\ pc = "idle"
    /\ caller = NoObject
    /\ frame = NoFrame
    /\ written = <<>>
    /\ call = NoCall
    /\ result = NoResult
    /\ guess_frame = NoGuess

Index == DOMAIN frame.detuning

(* nonlinear.py 30-38: the shape of the argument, and roots = zeros *)
KerrEnter ==
    /\ pc = "idle"
    /\ \E coupling_loss \in Losses, internal_loss \in Losses, choose \in Chooses :
       \E KXin \in Drives(coupling_loss, internal_loss) :
       \E detuning \in DetuningArguments(Points(coupling_loss, internal_loss, KXin)) :
          /\ caller' = IF detuning.kind = "ndarray" /\ detuning.shape = <<>>
                       THEN [detuning EXCEPT !.shape = <<1>>]
                       ELSE detuning
          /\ frame' = [NoFrame EXCEPT
                         !.is_scalar = (detuning.kind = "scalar"),
                         !.is_zero_size = (detuning.kind = "ndarray" /\ detuning.shape = <<>>),
                         !.detuning = detuning.data,
                         !.coupling_loss = coupling_loss,
                         !.internal_loss = internal_loss,
                         !.KXin = KXin,
                         !.choose = choose,
                         !.roots = [i \in DOMAIN detuning.data |-> Zero]]
          /\ written' = [i \in DOMAIN detuning.data |-> <<>>]
          /\ call' = [NoCall EXCEPT !.op = "kerr_detuning",
                                    !.coupling_loss = coupling_loss,
                                    !.internal_loss = internal_loss,
                                    !.KXin = KXin, !.choose = choose]
    /\ pc' = "coefficients"
    /\ UNCHANGED <<guess_frame, result>>

(* nonlinear.py 39-48 *)
KerrCoefficients ==
    /\ pc = "coefficients"
    /\ LET b == [i \in Index |-> CoefB(frame.detuning[i])]
           c == [i \in Index |-> CoefC(frame.detuning[i], frame.coupling_loss, frame.internal_loss)]
           d == CoefD(frame.coupling_loss, frame.KXin)
           delta0 == [i \in Index |-> Delta0(b[i], c[i])]
           delta1 == [i \in Index |-> Delta1(b[i], c[i], d)]
           delta  == [i \in Index |-> Delta(delta0[i], delta1[i])]
       IN  frame' = [frame EXCEPT
                       !.b = b, !.c = c, !.d = d,
                       !.delta0 = delta0, !.delta1 = delta1, !.delta = delta,
                       !.three_distinct_real = [i \in Index |-> ThreeDistinctReal(delta[i])],
                       !.multiple_real = [i \in Index |-> MultipleReal(delta[i])],
                       !.one_real = [i \in Index |-> OneReal(delta[i])]]
    /\ pc' = "one_real"
    /\ UNCHANGED <<guess_frame, caller, written, call, result>>

(* roots[mask] = the values computed from the masked points, when         *)
(* mask.any()                                                              *)
Assign(mask, value, branch) ==
    /\ frame' = [frame EXCEPT !.roots = [i \in Index |-> IF mask[i] THEN value[i] ELSE @[i]]]
    /\ written' = [i \in Index |-> IF mask[i] THEN Append(written[i], branch) ELSE written[i]]

(* nonlinear.py 51-53 *)
KerrOneReal ==
    /\ pc = "one_real"
    /\ Assign(frame.one_real,
              [i \in Index |-> RootOneReal(frame.b[i], frame.delta0[i], frame.delta1[i])],
              "one_real")
    /\ pc' = "triple"
    /\ UNCHANGED <<guess_frame, caller, call, result>>

(* nonlinear.py 56-58 *)
KerrTriple ==
    /\ pc = "triple"
    /\ Assign([i \in Index |-> Triple(frame.delta[i], frame.delta0[i])],
              [i \in Index |-> RootTriple(frame.b[i])],
              "triple")
    /\ pc' = "double_and_simple"
    /\ UNCHANGED <<guess_frame, caller, call, result>>

(* nonlinear.py 59-65 *)
KerrDoubleAndSimple ==
    /\ pc = "double_and_simple"
    /\ Assign([i \in Index |-> DoubleAndSimple(frame.delta[i], frame.delta0[i])],
              [i \in Index |-> RootDoubleAndSimple(frame.b[i], frame.c[i], frame.d,
                                             frame.delta0[i], frame.choose)],
              "double_and_simple")
    /\ pc' = "three_distinct_real"
    /\ UNCHANGED <<guess_frame, caller, call, result>>

(* nonlinear.py 68-79 *)
KerrThreeDistinctReal ==
    /\ pc = "three_distinct_real"
    /\ Assign(frame.three_distinct_real,
              [i \in Index |-> RootThreeDistinctReal(frame.b[i], frame.delta0[i],
                                               frame.delta1[i], frame.choose)],
              "three_distinct_real")
    /\ pc' = "return"
    /\ UNCHANGED <<guess_frame, caller, call, result>>

(* nonlinear.py 81-84 *)
KerrReturn ==
    /\ pc = "return"
    /\ result' = IF frame.is_scalar \/ frame.is_zero_size
                 THEN Returned("scalar", frame.roots[1])
                 ELSE Returned("ndarray", frame.roots)
    /\ pc' = "done"
    /\ UNCHANGED <<guess_frame, caller, frame, written, call>>

(* nonlinear.py 87-88 *)
BifurcationCall ==
    /\ pc = "idle"
    /\ \E coupling_loss \in Losses, internal_loss \in Losses :
       \E value \in Float(KerrDetuningAtBifurcation(coupling_loss, internal_loss)) :
          /\ call' = [NoCall EXCEPT !.op = "kerr_detuning_at_bifurcation",
                                    !.coupling_loss = coupling_loss,
                                    !.internal_loss = internal_loss]
          /\ result' = Returned("scalar", value)
    /\ pc' = "done"
    /\ UNCHANGED <<guess_frame, caller, frame, written>>

(* the frequencies of a sweep around resonance_frequency *)
Frequencies(resonance_frequency, coupling_loss, internal_loss) ==
    { Mul(resonance_frequency, Add(One, x)) :
        x \in FiniteDetunings(coupling_loss, internal_loss) }

(* shunt.py 45-48: one point of the sweep; no parameter is checked *)
ShuntCall ==
    /\ pc = "idle"
    /\ \E resonance_frequency \in (ResonanceFrequencies \cup OutOfBounds) \ {Zero},
          internal_loss \in Losses \cup OutOfBounds,
          coupling_loss \in (Losses \cup OutOfBounds) \ {Zero},
          asymmetry \in Asymmetries :
       \E frequency \in Frequencies(resonance_frequency, coupling_loss, internal_loss) :
          /\ call' = [NoCall EXCEPT !.op = "shunt",
                                    !.frequency = frequency,
                                    !.resonance_frequency = resonance_frequency,
                                    !.internal_loss = internal_loss,
                                    !.coupling_loss = coupling_loss,
                                    !.asymmetry = asymmetry]
          /\ result' = Returned("complex",
                                Shunt(frequency, resonance_frequency, internal_loss,
                                      coupling_loss, asymmetry))
    /\ pc' = "done"
    /\ UNCHANGED <<guess_frame, caller, frame, written>>

(* the radicals of the value are in Q(sqrt 3), as for Exact *)
Representable(z) == ~IsUnrep(Re(z)) /\ ~IsUnrep(Im(z))

(* shunt.py 67-72: one point of the sweep; no parameter is checked *)
ShuntNonlinearCall ==
    /\ pc = "idle"
    /\ \E resonance_frequency \in (ResonanceFrequencies \cup OutOfBounds) \ {Zero},
          internal_loss \in Losses \cup OutOfBounds,
          coupling_loss \in (Losses \cup OutOfBounds) \ {Zero} :
       \E KXin \in Drives(coupling_loss, internal_loss) :
       \E frequency \in Frequencies(resonance_frequency, coupling_loss, internal_loss),
          asymmetry \in Asymmetries, choose \in Chooses :
       \E value \in { ShuntNonlinear(frequency, resonance_frequency, internal_loss,
                                     coupling_loss, asymmetry, KXin, choose) } :
          /\ Representable(value)
          /\ call' = [NoCall EXCEPT !.op = "shunt_nonlinear",
                                    !.frequency = frequency,
                                    !.resonance_frequency = resonance_frequency,
                                    !.internal_loss = internal_loss,
                                    !.coupling_loss = coupling_loss,
                                    !.asymmetry = asymmetry,
                                    !.KXin = KXin, !.choose = choose]
          /\ result' = Returned("complex", value)
    /\ pc' = "done"
    /\ UNCHANGED <<guess_frame, caller, frame, written>>

(* shunt.py 110-114, on the value the linear model returned; the fitter's  *)
(* self.coupling_loss and self.asymmetry are whatever the fit left there   *)
ShuntFitterInvert ==
    /\ pc = "done"
    /\ call.op = "shunt"
    /\ \E coupling_loss \in Losses, asymmetry \in Asymmetries :
          /\ call' = [call EXCEPT !.op = "ShuntFitter.invert",
                                  !.scattering_data = result.value,
                                  !.self_coupling_loss = coupling_loss,
                                  !.self_asymmetry = asymmetry]
          /\ result' = Returned("tuple", Invert(result.value, coupling_loss, asymmetry))
    /\ pc' = "inverted"
    /\ UNCHANGED <<guess_frame, caller, frame, written>>

(* shunt.py 130-131: the body is pass, so the call returns None *)
ShuntNonlinearFitterInvert ==
    /\ pc = "done"
    /\ call.op = "shunt_nonlinear"
    /\ call' = [call EXCEPT !.op = "ShuntNonlinearFitter.invert",
                            !.scattering_data = result.value]
    /\ result' = Returned("None", <<>>)
    /\ pc' = "inverted"
    /\ UNCHANGED <<guess_frame, caller, frame, written>>

(* shunt.py 14-30.  With fewer than ten points width is 0, the kernel is  *)
(* empty and np.convolve raises ValueError.                               *)
GuessSmoothCall ==
    /\ pc = "idle"
    /\ \E n \in SweepSizes :
       \E frequency \in Sweeps(n), data \in [1 .. n -> DataPoints] :
          /\ call' = [NoCall EXCEPT !.op = "guess_smooth"]
          /\ IF Width(n) = 0
             THEN /\ guess_frame' = [NoGuess EXCEPT !.frequency = frequency, !.data = data]
                  /\ result' = Raised("ValueError")
             ELSE \E resonance_frequency \in { ResonanceFrequency(frequency, data) },
                     smoothed \in { Smoothed(data, Width(n)) } :
                  \E derivative \in { Derivative(smoothed) } :
                  \E linewidth \in { Linewidth(frequency, derivative, Width(n)) } :
                  \E internal_plus_coupling \in
                        { InternalPlusCoupling(linewidth, resonance_frequency) },
                     internal_over_coupling \in { InternalOverCoupling(data) } :
                     /\ guess_frame' = [frequency |-> frequency, data |-> data,
                                        width |-> Width(n), smoothed |-> smoothed,
                                        derivative |-> derivative, linewidth |-> linewidth]
                     /\ result' = Returned("tuple",
                           <<resonance_frequency,
                             CouplingLoss(internal_plus_coupling, internal_over_coupling),
                             InternalLoss(internal_plus_coupling, internal_over_coupling)>>)
    /\ pc' = "done"
    /\ UNCHANGED <<caller, frame, written>>

Next ==
    \/ GuessSmoothCall
    \/ KerrEnter
    \/ KerrCoefficients
    \/ KerrOneReal
    \/ KerrTriple
    \/ KerrDoubleAndSimple
    \/ KerrThreeDistinctReal
    \/ KerrReturn
    \/ BifurcationCall
    \/ ShuntCall
    \/ ShuntNonlinearCall
    \/ ShuntFitterInvert
    \/ ShuntNonlinearFitterInvert

Spec == Init /\ [][Next]_vars

(***************************************************************************)
(* Properties.                                                             *)
(***************************************************************************)
KerrDone == pc = "done" /\ call.op = "kerr_detuning"

(* the root returned for point i of the detuning argument *)
ReturnedRoot(i) == IF result.kind = "scalar" THEN result.value ELSE result.value[i]

(* y^3 + b y^2 + c y + d *)
Cubic(y, b, c, d) == Add(Add(Add(Pow3(y), Mul(b, Pow2(y))), Mul(c, y)), d)

(* the cubic of the point with detuning x, from the parameters of the call *)
CubicAt(y, x) ==
    Cubic(y, Mul(Num(-2), x),
          Add(Pow2(Div(Add(call.coupling_loss, call.internal_loss), Num(2))), Pow2(x)),
          Neg(Mul(call.KXin, call.coupling_loss)))

InUnitInterval(x) == Lt(Zero, x) /\ Lt(x, One)

(* C1: for coupling_loss and internal_loss in (0,1) and KXin >= 0, the     *)
(* value kerr_detuning returns for each finite detuning point is a root of *)
(* that point's cubic y^3 + b y^2 + c y + d, whichever branch and choose.  *)
C1_ReturnedRootSolvesCubic ==
    (KerrDone /\ InUnitInterval(call.coupling_loss) /\ InUnitInterval(call.internal_loss)
              /\ Le(Zero, call.KXin))
    => \A i \in Index :
          Finite(frame.detuning[i])
          => Eq(CubicAt(ReturnedRoot(i), frame.detuning[i]), Zero)

CEq(z, w) == Eq(Re(z), Re(w)) /\ Eq(Im(z), Im(w))

(* C2: at KXin = 0, with internal_loss > 0 and coupling_loss > 0,          *)
(* shunt_nonlinear returns what shunt returns for the same arguments, and  *)
(* kerr_detuning returns 0 at every finite detuning point, for min and max *)
C2_ZeroDriveIsLinear ==
    /\ (/\ pc = "done" /\ call.op = "shunt_nonlinear"
        /\ Eq(call.KXin, Zero)
        /\ Gt(call.internal_loss, Zero) /\ Gt(call.coupling_loss, Zero))
       => CEq(result.value,
              Shunt(call.frequency, call.resonance_frequency, call.internal_loss,
                    call.coupling_loss, call.asymmetry))
    /\ (/\ KerrDone
        /\ Eq(call.KXin, Zero)
        /\ Gt(call.internal_loss, Zero) /\ Gt(call.coupling_loss, Zero))
       => \A i \in Index : Finite(frame.detuning[i]) => Eq(ReturnedRoot(i), Zero)

(* ShuntFitter.invert has run on the value shunt returned for in-bounds    *)
(* parameters, with the coupling_loss and asymmetry that produced it       *)
RoundTrip ==
    /\ pc = "inverted" /\ call.op = "ShuntFitter.invert"
    /\ Gt(call.resonance_frequency, Zero)
    /\ Gt(call.internal_loss, Zero) /\ Gt(call.coupling_loss, Zero)
    /\ call.self_coupling_loss = call.coupling_loss
    /\ call.self_asymmetry = call.asymmetry

(* C3: ShuntFitter.invert applied to shunt(frequency, resonance_frequency, *)
(* internal_loss, coupling_loss, asymmetry), with the same coupling_loss   *)
(* and asymmetry, returns (frequency/resonance_frequency - 1,              *)
(* internal_loss)                                                          *)
C3_InvertRecoversDetuningAndLoss ==
    RoundTrip
    => /\ Eq(result.value[1], Sub(Div(call.frequency, call.resonance_frequency), One))
       /\ Eq(result.value[2], call.internal_loss)

(* a round trip off resonance with a nonzero asymmetry *)
C3_Witness ==
    /\ RoundTrip
    /\ Ne(call.asymmetry, Zero)
    /\ Gt(result.value[1], Zero)
    /\ Ne(call.frequency, call.resonance_frequency)

(* C4: ShuntNonlinearFitter.invert never returns normally: every call ends *)
(* in a not-implemented error                                              *)
C4_NonlinearInvertRaises ==
    (pc = "inverted" /\ call.op = "ShuntNonlinearFitter.invert")
    => result.outcome = "raised"

(* C5: a point of kerr_detuning whose cubic coefficients are NaN gets NaN, *)
(* never a finite number such as 0, and the other points of the same call  *)
(* get the root they get when passed alone                                 *)
C5_NaNCoefficientsGiveNaN ==
    KerrDone
    => \A i \in Index :
          IF IsNaN(frame.b[i]) \/ IsNaN(frame.c[i]) \/ IsNaN(frame.d)
          THEN IsNaN(ReturnedRoot(i))
          ELSE ReturnedRoot(i) = KerrPoint(frame.detuning[i], call.coupling_loss,
                                           call.internal_loss, call.KXin, call.choose)

(* C6: shunt and shunt_nonlinear called with internal_loss <= 0,           *)
(* coupling_loss <= 0 or resonance_frequency <= 0 end in an                *)
(* invalid-parameter error, not in a returned scattering value             *)
C6_OutOfBoundsParametersRejected ==
    (/\ pc = "done" /\ call.op \in {"shunt", "shunt_nonlinear"}
     /\ \/ Le(call.internal_loss, Zero)
        \/ Le(call.coupling_loss, Zero)
        \/ Le(call.resonance_frequency, Zero))
    => result.outcome = "raised"

(* C7: with KXin the value kerr_detuning_at_bifurcation returns for the    *)
(* two losses and detuning = (sqrt(3)/2) * (internal_loss + coupling_loss),*)
(* kerr_detuning computes delta0 = 0, delta1 = 0 and delta = 0, puts the   *)
(* point in the repeated-root case and returns the triple root -b/3        *)
C7_BifurcationIsTripleRoot ==
    (KerrDone /\ call.KXin \in Float(KerrDetuningAtBifurcation(call.coupling_loss,
                                                              call.internal_loss)))
    => \A i \in Index :
          frame.detuning[i] = ZeroDelta0(call.coupling_loss, call.internal_loss)
          => /\ Eq(frame.delta0[i], Zero)
             /\ Eq(frame.delta1[i], Zero)
             /\ Eq(frame.delta[i], Zero)
             /\ frame.multiple_real[i]
             /\ Eq(ReturnedRoot(i), Div(Neg(frame.b[i]), Num(3)))

(* point i of the call has more than one distinct real root *)
SeveralRealRoots(i) ==
    \/ Eq(frame.delta[i], Zero) /\ Ne(frame.delta0[i], Zero)
    \/ Gt(frame.delta[i], Zero)

(* with r a root of y^3 + b y^2 + c y + d, the other two roots are those   *)
(* of y^2 + (b + r) y + (c + b r + r^2); when they are real, both are >= r *)
(* iff that quadratic is >= 0 at r and its vertex is >= r, both <= r iff   *)
(* it is >= 0 at r and its vertex is <= r                                  *)
Cofactor(y, r, b, c) ==
    Add(Add(Pow2(y), Mul(Add(b, r), y)), Add(c, Add(Mul(b, r), Pow2(r))))
Vertex(r, b) == Div(Neg(Add(b, r)), Num(2))
IsSmallestRoot(r, b, c, d) ==
    /\ Eq(Cubic(r, b, c, d), Zero)
    /\ Le(Zero, Cofactor(r, r, b, c))
    /\ Le(r, Vertex(r, b))
IsLargestRoot(r, b, c, d) ==
    /\ Eq(Cubic(r, b, c, d), Zero)
    /\ Le(Zero, Cofactor(r, r, b, c))
    /\ Le(Vertex(r, b), r)

(* what kerr_detuning returns for point i of this call under the given choose *)
RootUnder(choose, i) ==
    IF choose = call.choose THEN ReturnedRoot(i)
    ELSE KerrPoint(frame.detuning[i], call.coupling_loss, call.internal_loss,
                   call.KXin, choose)

(* C8: at a point with more than one distinct real root, choose = min and  *)
(* choose = max return r_min < r_max, the smallest and the largest real    *)
(* root of the point's cubic                                               *)
C8_MinBelowMax ==
    KerrDone
    => \A i \in Index :
          SeveralRealRoots(i)
          => /\ Lt(RootUnder("min", i), RootUnder("max", i))
             /\ IsSmallestRoot(RootUnder("min", i), frame.b[i], frame.c[i], frame.d)
             /\ IsLargestRoot(RootUnder("max", i), frame.b[i], frame.c[i], frame.d)

(* a call with choose = max has returned at a point with three distinct    *)
(* real roots, and another with choose = min at a double root              *)
C8_Witness ==
    /\ KerrDone
    /\ \E i \in Index :
          \/ frame.three_distinct_real[i] /\ call.choose = "max"
          \/ frame.multiple_real[i] /\ Ne(frame.delta0[i], Zero) /\ call.choose = "min"
    /\ \A i \in Index : SeveralRealRoots(i) => Finite(ReturnedRoot(i))

(* the branch whose mask holds point i *)
BranchOf(i) ==
    IF frame.one_real[i] THEN "one_real"
    ELSE IF frame.three_distinct_real[i] THEN "three_distinct_real"
    ELSE IF Eq(frame.delta0[i], Zero) THEN "triple"
    ELSE "double_and_simple"

(* C9: kerr_detuning puts each of the n points in exactly one of the cases *)
(* delta > 0, delta = 0, delta < 0, returns n entries, and writes entry i  *)
(* exactly once, in the branch of point i's case, from point i's own       *)
(* coefficients; no entry keeps the placeholder of np.zeros                *)
C9_EveryPointWrittenOnce ==
    KerrDone
    => /\ Len(frame.roots) = Len(caller.data)
       /\ result.kind = "ndarray" => Len(result.value) = Len(caller.data)
       /\ \A i \in Index :
             /\ Cardinality({ m \in {"three_distinct_real", "multiple_real", "one_real"} :
                                frame[m][i] }) = 1
             /\ written[i] = <<BranchOf(i)>>
             /\ ReturnedRoot(i) = KerrPoint(frame.detuning[i], call.coupling_loss,
                                            call.internal_loss, call.KXin, call.choose)

(* C10: a scalar detuning gives a scalar root; a zero-dimensional array    *)
(* detuning gives a single value and still has shape () and its value      *)
(* after the call                                                          *)
C10_ShapePreserved ==
    KerrDone
    => /\ frame.is_scalar => result.kind = "scalar"
       /\ frame.is_zero_size => /\ result.kind = "scalar"
                                /\ caller.shape = <<>>
                                /\ caller.data = frame.detuning


(***************************************************************************)
(* guess_smooth.                                                           *)
(***************************************************************************)
GuessDone ==
    pc = "done" /\ call.op = "guess_smooth" /\ result.outcome = "returned"

(* the positions of the sweep that are not within width of an edge: the    *)
(* Python indices width <= i < n - width                                   *)
Interior ==
    { i \in 1 .. Len(guess_frame.frequency) :
        guess_frame.width < i /\ i <= Len(guess_frame.frequency) - guess_frame.width }
IsLargestDerivative(i) ==
    \A j \in Interior : Le(guess_frame.derivative[j], guess_frame.derivative[i])
IsSmallestDerivative(i) ==
    \A j \in Interior : Le(guess_frame.derivative[i], guess_frame.derivative[j])

(* C11: the linewidth of guess_smooth is frequency[i_max] - frequency[i_min] *)
(* for positions i_max and i_min of the sweep, away from its edges, where   *)
(* the derivative of the smoothed data is largest and smallest, on every    *)
(* strictly ordered sweep, uniformly spaced or not.                         *)
C11_LinewidthSpansDerivativeExtrema ==
    GuessDone =>
        \E i_max \in Interior, i_min \in Interior :
            /\ IsLargestDerivative(i_max)
            /\ IsSmallestDerivative(i_min)
            /\ Eq(guess_frame.linewidth,
                  Sub(guess_frame.frequency[i_max], guess_frame.frequency[i_min]))


(***************************************************************************)
(* kerr_detuning below the bifurcation.                                    *)
(***************************************************************************)
(* 0 <= KXin < kerr_detuning_at_bifurcation(coupling_loss, internal_loss), *)
(* for a value that the function can return                                *)
BelowBifurcation ==
    /\ Le(Zero, call.KXin)
    /\ \E threshold \in Float(KerrDetuningAtBifurcation(call.coupling_loss,
                                                       call.internal_loss)) :
          Lt(call.KXin, threshold)

(* C12: with 0 <= KXin below the value of kerr_detuning_at_bifurcation,    *)
(* every point of kerr_detuning has delta < 0, is written by the one-real- *)
(* root branch only, and gets the same root for choose = min and for       *)
(* choose = max.                                                           *)
C12_ChooseNotConsultedBelowBifurcation ==
    (KerrDone /\ BelowBifurcation)
    => \A i \in Index :
          /\ Lt(frame.delta[i], Zero)
          /\ written[i] = <<"one_real">>
          /\ RootUnder("min", i) = RootUnder("max", i)

=============================================================================
